---------------------------- MODULE Spec2Model ----------------------------
(***************************************************************************)
(* Django-Games: the score ledger (GameScore.save and the aggregates it    *)
(* recomputes), the request handlers that write to it, and the tic-tac-toe *)
(* evaluator and computer-move heuristic.                                  *)
(*                                                                         *)
(* Specifications:                                                         *)
(*   Spec       sequential GameScore.objects.create calls on the ledger    *)
(*   SpecConc   two requests whose SQL statements interleave (autocommit)  *)
(*   SpecGames  the number_guess and tic_tac_toe_move request handlers     *)
(*   SpecBoard  check_winner / get_computer_move applied to every board    *)
(*   SpecTTT    tic-tac-toe rounds played through tic_tac_toe_move          *)
(*   SpecGuess  number_guess rounds of one session, guess by guess          *)
(*   SpecRps    the rock_paper_scissors and reset_rps_stats handlers        *)
(***************************************************************************)
EXTENDS Integers, Sequences, FiniteSets, TLC

VARIABLES
    records,    \* the GameScore table, in creation order
    playerRow,  \* the Player table: name -> statistics columns
    gameRow,    \* the Game table: name -> statistics columns
    last,       \* what the last completed operation was and returned
    proc,       \* SpecConc: each in-flight request's position and locals
    session,    \* SpecGames: request.session of the one browser session
    board,      \* SpecBoard: the list handed to the function under test;
                \* SpecTTT: the board of the round the client is playing
    ret,        \* SpecBoard: what the function returned, and the list afterwards
    round       \* SpecGuess: the round as the player sees it (target, guesses made)

vars == <<records, playerRow, gameRow, last, proc, session, board, ret, round>>

-----------------------------------------------------------------------------
(* Tic-tac-toe: boards, check_winner, get_computer_move                    *)

Cells == 0..8

Markers == {"X", "O"}

Boards == [Cells -> {"", "X", "O"}]

EmptyBoard == [i \in Cells |-> ""]

\* check_winner's "return None"
NoWinner == "None"

\* get_computer_move's "return ... else None"
NoMove == -1

winning_combos ==
    << <<0, 1, 2>>, <<3, 4, 5>>, <<6, 7, 8>>,
       <<0, 3, 6>>, <<1, 4, 7>>, <<2, 5, 8>>,
       <<0, 4, 8>>, <<2, 4, 6>> >>

\* board[combo[0]] == board[combo[1]] == board[combo[2]] != ''
combo_matches(b, combo) ==
    /\ b[combo[1]] = b[combo[2]]
    /\ b[combo[2]] = b[combo[3]]
    /\ b[combo[3]] # ""

RECURSIVE scan_combos(_, _)
scan_combos(b, k) ==
    IF k > Len(winning_combos) THEN NoWinner
    ELSE IF combo_matches(b, winning_combos[k]) THEN b[winning_combos[k][1]]
    ELSE scan_combos(b, k + 1)

\* A scan that stops after the rows and columns (the diagonals are forgotten).
check_winner_no_diagonals(b) ==
    IF \E k \in 1..6 : combo_matches(b, winning_combos[k])
    THEN b[winning_combos[CHOOSE k \in 1..6 :
                /\ combo_matches(b, winning_combos[k])
                /\ \A j \in 1..(k - 1) : ~combo_matches(b, winning_combos[j])][1]]
    ELSE NoWinner

check_winner(b) == scan_combos(b, 1)

\* The draw test never finds the list full.
board_never_full(b) == FALSE

\* '' not in board
board_full(b) == \A i \in Cells : b[i] # ""

\* The evaluation the handler derives from a board: the winner check_winner
\* reports, else Draw when no cell is empty, else None.
evaluateBoard(b) ==
    LET winner == check_winner(b) IN
    IF winner # NoWinner THEN winner
    ELSE IF board_full(b) THEN "Draw"
    ELSE NoWinner

\* One "for i in range(9)" trial loop of get_computer_move, from index i on:
\* fill an empty cell with mark, test, and empty it again.
RECURSIVE trial_loop(_, _, _)
trial_loop(b, mark, i) ==
    IF i > 8 THEN [found |-> FALSE, move |-> NoMove, board |-> b]
    ELSE IF b[i] = ""
         THEN LET filled == [b EXCEPT ![i] = mark] IN
              IF check_winner(filled) = mark
              THEN [found |-> TRUE, move |-> i, board |-> [filled EXCEPT ![i] = ""]]
              ELSE trial_loop([filled EXCEPT ![i] = ""], mark, i + 1)
         ELSE trial_loop(b, mark, i + 1)

\* [i for i in cells if board[i] == ''], in the order of cells
RECURSIVE available_from(_, _)
available_from(b, cells) ==
    IF cells = << >> THEN << >>
    ELSE IF b[Head(cells)] = "" THEN <<Head(cells)>> \o available_from(b, Tail(cells))
    ELSE available_from(b, Tail(cells))

\* random.choice(seq): rnd is the draw of the random source
random_choice(seq, rnd) == seq[(rnd % Len(seq)) + 1]

corners == <<0, 2, 6, 8>>

all_cells == <<0, 1, 2, 3, 4, 5, 6, 7, 8>>

\* The centre is taken without looking whether it is empty.
center_or_rest_unchecked(b, rnd) == [move |-> 4, board |-> b]

\* After the centre any free cell is drawn: the corners get no preference.
center_or_rest_no_corner_rule(b, rnd) ==
    IF b[4] = "" THEN [move |-> 4, board |-> b]
    ELSE IF available_from(b, all_cells) # << >>
         THEN [move |-> random_choice(available_from(b, all_cells), rnd), board |-> b]
         ELSE [move |-> NoMove, board |-> b]

\* "Take center if available", "Take corners", "Take any available spot"
center_or_rest(b, rnd) ==
    IF b[4] = "" THEN [move |-> 4, board |-> b]
    ELSE LET available_corners == available_from(b, corners)
             available == available_from(b, all_cells) IN
         IF available_corners # << >>
         THEN [move |-> random_choice(available_corners, rnd), board |-> b]
         ELSE IF available # << >>
              THEN [move |-> random_choice(available, rnd), board |-> b]
              ELSE [move |-> NoMove, board |-> b]

\* The win trial returns without emptying the cell it has just filled.
win_trial_leaves_mark(b) ==
    LET r == trial_loop(b, "O", 0) IN
    IF r.found THEN [r EXCEPT !.board = [b EXCEPT ![r.move] = "O"]] ELSE r

\* The win trial is left out: the heuristic starts at the block trial.
win_trial_skipped(b) == [found |-> FALSE, move |-> NoMove, board |-> b]

\* "Try to win"
win_trial(b) == trial_loop(b, "O", 0)

\* The block trial is left out: after the win trial comes the centre.
block_trial_skipped(b) == [found |-> FALSE, move |-> NoMove, board |-> b]

\* "Try to block player"
block_trial(b) == trial_loop(b, "X", 0)

\* The computer never finds a cell.
get_computer_move_none(b, rnd) == [move |-> NoMove, board |-> b]

\* get_computer_move(board): the index returned (NoMove for None) and the
\* list as the call leaves it.
get_computer_move(b, rnd) ==
    LET win == win_trial(b) IN
    IF win.found THEN [move |-> win.move, board |-> win.board]
    ELSE LET block == block_trial(win.board) IN
         IF block.found THEN [move |-> block.move, board |-> block.board]
         ELSE center_or_rest(block.board, rnd)

-----------------------------------------------------------------------------
(* The score ledger: GameScore.save, update_player_stats, update_statistics *)

Players == {"Anonymous", "bob"}

Games == {"number_guess", "tic_tac_toe"}

\* Scores handed to GameScore.objects.create in Spec and SpecConc.
Scores == {0, 80, 95}

Attempts == {1, 2}

\* Spec stops creating records at this many rows.
MaxRecords == 3

\* A Player row's statistics columns (last_played and total_playtime are
\* timestamps and durations; no caller passes a duration).
NewPlayer == [total_games |-> 0, total_score |-> 0, highest_score |-> 0]

\* A Game row's statistics columns; average_score is the exact quotient
\* num / den that Avg('score') returns.
NewGame == [play_count |-> 0, average_score |-> [num |-> 0, den |-> 1]]

\* GameScore.objects.filter(player=p, game=g)
pair_scores(recs, p, g) ==
    {k \in DOMAIN recs : recs[k].player = p /\ recs[k].game = g}

\* A check that also counts an equal score as an existing best.
existing_best_or_equal(recs, p, g, score) ==
    \E k \in pair_scores(recs, p, g) : recs[k].score >= score

\* GameScore.objects.filter(player=..., game=..., score__gt=self.score).exists()
existing_best(recs, p, g, score) ==
    \E k \in pair_scores(recs, p, g) : recs[k].score > score

\* The demotion is left out.
demote_nothing(recs, p, g) == recs

\* The demotion forgets the player filter: every flagged row of the game loses
\* its flag.
demote_all_of_game(recs, p, g) ==
    [k \in DOMAIN recs |->
        IF recs[k].game = g /\ recs[k].is_personal_best
        THEN [recs[k] EXCEPT !.is_personal_best = FALSE]
        ELSE recs[k]]

\* GameScore.objects.filter(player=..., game=..., is_personal_best=True)
\*     .update(is_personal_best=False)
demote_previous_bests(recs, p, g) ==
    [k \in DOMAIN recs |->
        IF k \in pair_scores(recs, p, g) /\ recs[k].is_personal_best
        THEN [recs[k] EXCEPT !.is_personal_best = FALSE]
        ELSE recs[k]]

\* super().save(): the INSERT of a new row
insert_score(recs, p, g, score, attempts, best) ==
    Append(recs, [player |-> p, game |-> g, score |-> score,
                  attempts |-> attempts, is_personal_best |-> best])

\* GameScore.save up to and including super().save()
save_record(recs, p, g, score, attempts) ==
    IF ~existing_best(recs, p, g, score)
    THEN insert_score(demote_previous_bests(recs, p, g), p, g, score, attempts, TRUE)
    ELSE insert_score(recs, p, g, score, attempts, FALSE)

\* Only the scores of one game are taken for a player's statistics.
player_scores_one_game(recs, p) ==
    {k \in DOMAIN recs : recs[k].player = p /\ recs[k].game = recs[Len(recs)].game}

\* player.scores
player_scores(recs, p) == {k \in DOMAIN recs : recs[k].player = p}

\* Only the scores of the saving player are taken for a game's statistics.
game_scores_one_player(recs, g) ==
    {k \in DOMAIN recs : recs[k].game = g /\ recs[k].player = recs[Len(recs)].player}

\* game.scores
game_scores(recs, g) == {k \in DOMAIN recs : recs[k].game = g}

RECURSIVE sum_score(_, _)
sum_score(recs, ks) ==
    IF ks = {} THEN 0
    ELSE LET k == CHOOSE k \in ks : TRUE IN
         recs[k].score + sum_score(recs, ks \ {k})

\* aggregate(Sum('score'))['score__sum'] or 0
sum_or_0(recs, ks) == IF ks = {} THEN 0 ELSE sum_score(recs, ks)

\* aggregate(Max('score'))['score__max'] or 0
max_or_0(recs, ks) ==
    IF ks = {} THEN 0
    ELSE CHOOSE m \in {recs[k].score : k \in ks} : \A k \in ks : recs[k].score <= m

\* aggregate(Avg('score'))['score__avg'] or 0
avg_or_0(recs, ks) ==
    IF ks = {} \/ sum_score(recs, ks) = 0 THEN [num |-> 0, den |-> 1]
    ELSE [num |-> sum_score(recs, ks), den |-> Cardinality(ks)]

\* update_player_stats: the player object as player.save() writes it
update_player_stats(recs, player, p) ==
    [player EXCEPT !.total_games = Cardinality(player_scores(recs, p)),
                   !.total_score = sum_or_0(recs, player_scores(recs, p)),
                   !.highest_score = max_or_0(recs, player_scores(recs, p))]

\* Game.update_statistics: the game object afterwards (saved only when the
\* game has scores, and otherwise untouched)
update_statistics(recs, game, g) ==
    IF game_scores(recs, g) # {}
    THEN [game EXCEPT !.play_count = Cardinality(game_scores(recs, g)),
                      !.average_score = avg_or_0(recs, game_scores(recs, g))]
    ELSE game

\* GameScore.objects.create(player=player, game=game, score=..., attempts=...)
\* run to completion: the three tables afterwards, and the caller's player
\* object (self.player is the object the caller passed in).
create_score(recs, prow, grow, player, p, g, score, attempts) ==
    LET recs2 == save_record(recs, p, g, score, attempts)
        player2 == update_player_stats(recs2, player, p)
        game2 == update_statistics(recs2, grow[g], g) IN
    [records |-> recs2,
     playerRow |-> [prow EXCEPT ![p] = player2],
     gameRow |-> [grow EXCEPT ![g] = game2],
     player |-> player2]

NoCall == [op |-> "none"]

NoSession == [k \in {} |-> 0]

\* No number-guess round has been played in the session.
NoRound == [open |-> FALSE, target |-> 0, count |-> 0, base |-> 0]

InitTables ==
    /\ records = << >>
    /\ playerRow = [p \in Players |-> NewPlayer]
    /\ gameRow = [g \in Games |-> NewGame]

Init ==
    /\ InitTables
    /\ last = NoCall
    /\ proc = << >>
    /\ session = NoSession
    /\ board = EmptyBoard
    /\ ret = NoCall
    /\ round = NoRound

\* One GameScore.objects.create call, alone on the database.
RecordScore(p, g, score, attempts) ==
    /\ Len(records) < MaxRecords
    /\ \E db \in {create_score(records, playerRow, gameRow, playerRow[p],
                               p, g, score, attempts)} :
          /\ records' = db.records
          /\ playerRow' = db.playerRow
          /\ gameRow' = db.gameRow
    /\ last' = [op |-> "recordScore", player |-> p, game |-> g, score |-> score]
    /\ UNCHANGED <<proc, session, board, ret, round>>

Next ==
    \E p \in Players, g \in Games, score \in Scores, attempts \in Attempts :
        RecordScore(p, g, score, attempts)

Spec == Init /\ [][Next]_vars

-----------------------------------------------------------------------------
(* SpecConc: two GameScore.objects.create calls whose statements interleave *)
(* (no transaction.atomic, no select_for_update: every query of save,       *)
(* update_player_stats and update_statistics is its own transaction)        *)

Workers == {1, 2}

ConcScores == {80, 95}

Idle == [pc |-> "idle"]

InitConc ==
    /\ InitTables
    /\ last = NoCall
    /\ proc = [w \in Workers |-> Idle]
    /\ session = NoSession
    /\ board = EmptyBoard
    /\ ret = NoCall
    /\ round = NoRound

\* The request handler has fetched its player and game objects and calls
\* GameScore.objects.create.
Begin(w, p, g, score) ==
    /\ proc[w].pc = "idle"
    /\ proc' = [proc EXCEPT ![w] =
                  [pc |-> "check", p |-> p, g |-> g, score |-> score,
                   is_personal_best |-> FALSE,
                   player |-> playerRow[p], game |-> gameRow[g]]]
    /\ UNCHANGED <<records, playerRow, gameRow, last, session, board, ret, round>>

\* existing_best = GameScore.objects.filter(..., score__gt=self.score).exists()
CheckBest(w) ==
    /\ proc[w].pc = "check"
    /\ proc' = [proc EXCEPT ![w].pc =
                  IF existing_best(records, proc[w].p, proc[w].g, proc[w].score)
                  THEN "insert" ELSE "demote"]
    /\ UNCHANGED <<records, playerRow, gameRow, last, session, board, ret, round>>

\* .update(is_personal_best=False); self.is_personal_best = True
Demote(w) ==
    /\ proc[w].pc = "demote"
    /\ records' = demote_previous_bests(records, proc[w].p, proc[w].g)
    /\ proc' = [proc EXCEPT ![w].pc = "insert", ![w].is_personal_best = TRUE]
    /\ UNCHANGED <<playerRow, gameRow, last, session, board, ret, round>>

\* super().save()
Insert(w) ==
    /\ proc[w].pc = "insert"
    /\ records' = insert_score(records, proc[w].p, proc[w].g, proc[w].score, 1,
                               proc[w].is_personal_best)
    /\ proc' = [proc EXCEPT ![w].pc = "player_count"]
    /\ UNCHANGED <<playerRow, gameRow, last, session, board, ret, round>>

\* player.total_games = player.scores.count()
PlayerCount(w) ==
    /\ proc[w].pc = "player_count"
    /\ proc' = [proc EXCEPT ![w].pc = "player_sum",
                  ![w].player.total_games =
                      Cardinality(player_scores(records, proc[w].p))]
    /\ UNCHANGED <<records, playerRow, gameRow, last, session, board, ret, round>>

\* player.total_score = player.scores.aggregate(Sum('score'))[...] or 0
PlayerSum(w) ==
    /\ proc[w].pc = "player_sum"
    /\ proc' = [proc EXCEPT ![w].pc = "player_max",
                  ![w].player.total_score =
                      sum_or_0(records, player_scores(records, proc[w].p))]
    /\ UNCHANGED <<records, playerRow, gameRow, last, session, board, ret, round>>

\* player.highest_score = player.scores.aggregate(Max('score'))[...] or 0
PlayerMax(w) ==
    /\ proc[w].pc = "player_max"
    /\ proc' = [proc EXCEPT ![w].pc = "player_save",
                  ![w].player.highest_score =
                      max_or_0(records, player_scores(records, proc[w].p))]
    /\ UNCHANGED <<records, playerRow, gameRow, last, session, board, ret, round>>

\* player.save(): every column of the row is written from the object
PlayerSave(w) ==
    /\ proc[w].pc = "player_save"
    /\ playerRow' = [playerRow EXCEPT ![proc[w].p] = proc[w].player]
    /\ proc' = [proc EXCEPT ![w].pc = "game_exists"]
    /\ UNCHANGED <<records, gameRow, last, session, board, ret, round>>

\* if scores.exists():
GameExists(w) ==
    /\ proc[w].pc = "game_exists"
    /\ proc' = [proc EXCEPT ![w].pc =
                  IF game_scores(records, proc[w].g) # {} THEN "game_count" ELSE "done"]
    /\ UNCHANGED <<records, playerRow, gameRow, last, session, board, ret, round>>

\* self.play_count = scores.count()
GameCount(w) ==
    /\ proc[w].pc = "game_count"
    /\ proc' = [proc EXCEPT ![w].pc = "game_avg",
                  ![w].game.play_count =
                      Cardinality(game_scores(records, proc[w].g))]
    /\ UNCHANGED <<records, playerRow, gameRow, last, session, board, ret, round>>

\* self.average_score = scores.aggregate(Avg('score'))['score__avg'] or 0
GameAvg(w) ==
    /\ proc[w].pc = "game_avg"
    /\ proc' = [proc EXCEPT ![w].pc = "game_save",
                  ![w].game.average_score =
                      avg_or_0(records, game_scores(records, proc[w].g))]
    /\ UNCHANGED <<records, playerRow, gameRow, last, session, board, ret, round>>

\* self.save() of the game
GameSave(w) ==
    /\ proc[w].pc = "game_save"
    /\ gameRow' = [gameRow EXCEPT ![proc[w].g] = proc[w].game]
    /\ proc' = [proc EXCEPT ![w].pc = "done"]
    /\ UNCHANGED <<records, playerRow, last, session, board, ret, round>>

NextConc ==
    \E w \in Workers :
        \/ \E p \in Players, g \in Games, score \in ConcScores : Begin(w, p, g, score)
        \/ CheckBest(w)
        \/ Demote(w)
        \/ Insert(w)
        \/ PlayerCount(w)
        \/ PlayerSum(w)
        \/ PlayerMax(w)
        \/ PlayerSave(w)
        \/ GameExists(w)
        \/ GameCount(w)
        \/ GameAvg(w)
        \/ GameSave(w)

SpecConc == InitConc /\ [][NextConc]_vars

-----------------------------------------------------------------------------
(* SpecBoard: the evaluator and the heuristic applied to every board       *)

\* Draws of the random source that are told apart (random.choice picks among
\* at most four corners, or at most four edge cells).
RndDraws == 4

InitBoard ==
    /\ InitTables
    /\ last = NoCall
    /\ proc = << >>
    /\ session = NoSession
    /\ board \in Boards
    /\ ret = NoCall
    /\ round = NoRound

CallEvaluateBoard ==
    /\ ret' = [op |-> "evaluateBoard", winner |-> evaluateBoard(board), board |-> board]
    /\ UNCHANGED <<records, playerRow, gameRow, last, proc, session, board, round>>

CallGetComputerMove ==
    /\ \E rnd \in 0..(RndDraws - 1) :
          LET r == get_computer_move(board, rnd) IN
          ret' = [op |-> "get_computer_move", move |-> r.move, board |-> r.board]
    /\ UNCHANGED <<records, playerRow, gameRow, last, proc, session, board, round>>

NextBoard ==
    \/ CallEvaluateBoard
    \/ CallGetComputerMove

SpecBoard == InitBoard /\ [][NextBoard]_vars

-----------------------------------------------------------------------------
(* SpecGames: the number_guess and tic_tac_toe_move request handlers        *)

\* random.randint(1, 100)
TargetMin == 1

TargetMax == 100

\* The targets the random source is made to draw in SpecGames.
Targets == {TargetMin, 50, TargetMax}

\* The guesses posted: the declared range's ends, both sides of them, and
\* the spec's scenario values.
Guesses == {0, 1, 10, 50, 90, 100, 101}

\* SpecGames stops posting guesses to a round at this many attempts, and
\* stops completing rounds at this many records.
MaxAttempts == 3

MaxGameRecords == 2

\* request.session.get(key, default)
session_get(s, key, default) == IF key \in DOMAIN s THEN s[key] ELSE default

\* request.session[key] = value
session_set(s, key, value) ==
    [k \in DOMAIN s \cup {key} |-> IF k = key THEN value ELSE s[k]]

\* The completed round's keys are left in the session.
session_keep(s, keys) == s

\* for key in keys: if key in request.session: del request.session[key]
session_clear(s, keys) == [k \in DOMAIN s \ keys |-> s[k]]

\* The score without its floor of 10.
guess_score_no_floor(attempts) == 100 - attempts

\* score = max(100 - attempts, 10)
guess_score(attempts) == IF 100 - attempts > 10 THEN 100 - attempts ELSE 10

\* "Too low! Try higher." if guess < target else "Too high! Try lower."
guess_hint(guess, target) == IF guess < target THEN "TooLow" ELSE "TooHigh"

\* The handlers' own bookkeeping after GameScore.objects.create:
\* player.total_games += 1; player.total_score += score; player.save()
handler_player_update(player, score) ==
    [player EXCEPT !.total_games = @ + 1, !.total_score = @ + score]

\* GameScore.objects.create followed by the handler's own update of the
\* player object it passed in, and player.save().
complete_round(p, g, score, attempts) ==
    \E db \in {create_score(records, playerRow, gameRow, playerRow[p],
                            p, g, score, attempts)} :
        /\ records' = db.records
        /\ gameRow' = db.gameRow
        /\ playerRow' = [db.playerRow EXCEPT
                            ![p] = handler_player_update(db.player, score)]

InitGames ==
    /\ InitTables
    /\ last = NoCall
    /\ proc = << >>
    /\ session = NoSession
    /\ board = EmptyBoard
    /\ ret = NoCall
    /\ round = NoRound

\* The target the handler compares the guess with: the stored one, or the one
\* random.randint returns when none is stored.
round_target(s, drawn) ==
    IF "target_number" \in DOMAIN s THEN s["target_number"] ELSE drawn

\* POST number_guess with player_name = p and guess; drawn is what
\* random.randint returns if the handler asks for a target.
number_guess(p, guess, drawn) ==
    LET fresh == "target_number" \notin DOMAIN session
        target == round_target(session, drawn)
        attempts == IF fresh THEN 1 ELSE session_get(session, "attempts", 0) + 1
        started == IF fresh
                   THEN session_set(session_set(session, "target_number", target),
                                    "game_start_time", 0)
                   ELSE session
        counted == session_set(started, "attempts", attempts)
    IN
    /\ IF guess = target
       THEN /\ complete_round(p, "number_guess", guess_score(attempts), attempts)
            /\ session' = session_clear(counted,
                              {"target_number", "attempts", "game_start_time"})
            /\ last' = [op |-> "number_guess", player |-> p, guess |-> guess,
                        target |-> target, attempts |-> attempts,
                        result |-> "Correct", completed |-> TRUE,
                        score |-> guess_score(attempts)]
       ELSE /\ session' = counted
            /\ last' = [op |-> "number_guess", player |-> p, guess |-> guess,
                        target |-> target, attempts |-> attempts,
                        result |-> guess_hint(guess, target), completed |-> FALSE,
                        score |-> 0]
            /\ UNCHANGED <<records, playerRow, gameRow>>
    /\ UNCHANGED <<proc, board, ret>>

\* A number_guess request in SpecGames: rounds of fewer than MaxAttempts
\* guesses, at most MaxGameRecords completed rounds.
NumberGuess(p, guess, drawn) ==
    /\ session_get(session, "attempts", 0) < MaxAttempts
    /\ guess = round_target(session, drawn) => Len(records) < MaxGameRecords
    /\ number_guess(p, guess, drawn)
    /\ UNCHANGED round

MakeBoard(cells) == [i \in Cells |-> cells[i + 1]]

\* The boards the client posts in SpecGames: the empty board, the spec's
\* scenario, a board either side can win, a board the player's move fills, a
\* board the computer's answer fills, and a board with a complete O line.
ClientBoards ==
    { EmptyBoard,
      MakeBoard(<<"X", "X", "", "", "", "", "", "", "">>),
      MakeBoard(<<"O", "O", "", "X", "X", "", "", "", "">>),
      MakeBoard(<<"X", "O", "X", "X", "O", "O", "O", "X", "">>),
      MakeBoard(<<"X", "O", "X", "X", "O", "O", "O", "", "">>),
      MakeBoard(<<"O", "O", "O", "X", "X", "", "", "", "">>) }

\* What tic_tac_toe_move does with a board and a position: the board and the
\* winner of the response (NoWinner when the response has no 'winner' key),
\* and the score of the record written, if any.
tic_tac_toe_result(b, position, rnd) ==
    IF b[position] = ""
    THEN LET b1 == [b EXCEPT ![position] = "X"] IN
         IF check_winner(b1) = "X"
         THEN [board |-> b1, winner |-> "X", written |-> TRUE, score |-> 100,
               counted |-> 100, computer_move |-> NoMove]
         ELSE IF board_full(b1)
         THEN [board |-> b1, winner |-> "Draw", written |-> TRUE, score |-> 50,
               counted |-> 50, computer_move |-> NoMove]
         ELSE LET cm == get_computer_move(b1, rnd) IN
              IF cm.move # NoMove
              THEN LET b2 == [cm.board EXCEPT ![cm.move] = "O"] IN
                   IF check_winner(b2) = "O"
                   THEN [board |-> b2, winner |-> "O", written |-> TRUE, score |-> 0,
                         counted |-> 0, computer_move |-> cm.move]
                   ELSE IF board_full(b2)
                   THEN [board |-> b2, winner |-> "Draw", written |-> TRUE,
                         score |-> 50, counted |-> 50, computer_move |-> cm.move]
                   ELSE [board |-> b2, winner |-> NoWinner, written |-> FALSE,
                         score |-> 0, counted |-> 0, computer_move |-> cm.move]
              ELSE [board |-> cm.board, winner |-> NoWinner, written |-> FALSE,
                    score |-> 0, counted |-> 0, computer_move |-> NoMove]
    ELSE [board |-> b, winner |-> NoWinner, written |-> FALSE, score |-> 0,
          counted |-> 0, computer_move |-> NoMove]

\* POST tic_tac_toe_move with player_name = p, board = b and position; the
\* random source may draw any of RndDraws values.
TicTacToeMove(p, b, position) ==
    \E r \in {tic_tac_toe_result(b, position, rnd) : rnd \in 0..(RndDraws - 1)} :
        /\ IF r.written
           THEN /\ Len(records) < MaxGameRecords
                /\ complete_round(p, "tic_tac_toe", r.score, 1)
           ELSE UNCHANGED <<records, playerRow, gameRow>>
        /\ last' = [op |-> "tic_tac_toe_move", player |-> p, winner |-> r.winner,
                    computer_played |-> r.computer_move # NoMove,
                    completed |-> r.written, score |-> r.score]
        /\ UNCHANGED <<proc, session, board, ret, round>>

NextGames ==
    \/ \E p \in Players, guess \in Guesses, drawn \in Targets :
           NumberGuess(p, guess, drawn)
    \/ \E p \in Players, b \in ClientBoards, position \in Cells :
           TicTacToeMove(p, b, position)

SpecGames == InitGames /\ [][NextGames]_vars

-----------------------------------------------------------------------------
(* SpecTTT: tic-tac-toe rounds played through tic_tac_toe_move.  The client *)
(* starts from the empty board and posts back the board of the last         *)
(* response until a response carries a winner; it may also post a board     *)
(* that no response ever returned.                                          *)

\* Rounds played to their end; a further round is played up to the request
\* that would end it.
MaxTttRounds == 1

\* Posted lists of nine cells with a cell that is not '', 'X' or 'O'.
MalformedBoards ==
    { MakeBoard(<<"Z", "Z", "Z", "", "", "", "", "", "">>),
      MakeBoard(<<"X", "X", "", "Z", "", "", "", "", "">>),
      MakeBoard(<<"", "", "", "", "Z", "", "", "", "">>) }

TttPlayers == {"Anonymous"}

InitTTT ==
    /\ InitTables
    /\ last = NoCall
    /\ proc = << >>
    /\ session = NoSession
    /\ board = EmptyBoard
    /\ ret = NoCall
    /\ round = NoRound

\* One POST tic_tac_toe_move with board = b: the ledger after it and the
\* response, with what the last check_winner call of the request returned.
post_move(p, b, position, in_round) ==
    \E r \in {tic_tac_toe_result(b, position, rnd) : rnd \in 0..(RndDraws - 1)} :
        /\ IF r.written
           THEN /\ Len(records) < MaxTttRounds
                /\ complete_round(p, "tic_tac_toe", r.score, 1)
           ELSE UNCHANGED <<records, playerRow, gameRow>>
        /\ last' = [op |-> "tic_tac_toe_move", posted |-> b,
                    position |-> position, board |-> r.board,
                    winner |-> r.winner, written |-> r.written,
                    checked |-> IF b[position] = ""
                                THEN check_winner(r.board) ELSE NoWinner,
                    in_round |-> in_round]

\* The client posts the board of its round and takes the board of the
\* response as the round's board.
Move(p, position) ==
    /\ evaluateBoard(board) = NoWinner
    /\ post_move(p, board, position, TRUE)
    /\ board' = last'.board
    /\ UNCHANGED <<proc, session, ret, round>>

\* The response carried a winner: the client starts the next round.
NewRound ==
    /\ evaluateBoard(board) # NoWinner
    /\ board' = EmptyBoard
    /\ last' = [op |-> "new_round"]
    /\ UNCHANGED <<records, playerRow, gameRow, proc, session, ret, round>>

\* A request whose board is not one a response returned, posted between
\* rounds (the handler keeps nothing of a round: what it does with the
\* request depends on the request and the ledger alone).
PostMalformed(p, b, position) ==
    /\ board = EmptyBoard
    /\ post_move(p, b, position, FALSE)
    /\ UNCHANGED <<proc, session, board, ret, round>>

\* A well-formed board that is not the board of the client's round, posted
\* between rounds.
PostClientBoard(p, b, position) ==
    /\ board = EmptyBoard
    /\ post_move(p, b, position, FALSE)
    /\ UNCHANGED <<proc, session, board, ret, round>>

\* The client posts the board of the finished round once more (a click on
\* the board after the response that carried the winner); the round's board
\* stays what that response returned.
PostAgain(p, position) ==
    /\ evaluateBoard(board) # NoWinner
    /\ post_move(p, board, position, FALSE)
    /\ UNCHANGED <<proc, session, board, ret, round>>

NextTTT ==
    \/ \E p \in TttPlayers, position \in Cells : Move(p, position)
    \/ NewRound
    \/ \E p \in TttPlayers, b \in MalformedBoards, position \in Cells :
           PostMalformed(p, b, position)
    \/ \E p \in TttPlayers, b \in ClientBoards, position \in Cells :
           PostClientBoard(p, b, position)
    \/ \E p \in TttPlayers, position \in Cells : PostAgain(p, position)

SpecTTT == InitTTT /\ [][NextTTT]_vars

-----------------------------------------------------------------------------
(* SpecGuess: number_guess rounds of one browser session, followed guess by *)
(* guess.  round is the round as the player sees it: whether one is open,   *)
(* its target, the number of guesses made in it, and the number of records  *)
(* in the ledger when it started.                                           *)

\* A round that already has this many wrong guesses behind it, so that the
\* floor of the score is in reach.
LongRound == 89

\* Completed rounds after which no further guess is posted.
MaxRounds == 2

\* The attempt counters from which a further guess is posted.
AttemptsExplored ==
    (0..(MaxAttempts - 1)) \cup (LongRound..(LongRound + MaxAttempts - 1))

\* The round after one more guess: an open round counts the guess and closes
\* when the guess equals its target; with no open round the guess starts one
\* with the target drawn.
round_after(r, guess, drawn, nrecords) ==
    IF r.open
    THEN [r EXCEPT !.count = @ + 1, !.open = (guess # r.target)]
    ELSE [open |-> guess # drawn, target |-> drawn, count |-> 1,
          base |-> nrecords]

\* Either a session without a round, or one in the middle of a long round.
InitGuess ==
    /\ InitTables
    /\ last = NoCall
    /\ proc = << >>
    /\ board = EmptyBoard
    /\ ret = NoCall
    /\ \/ session = NoSession /\ round = NoRound
       \/ \E t \in Targets :
             /\ session = [target_number |-> t, attempts |-> LongRound,
                           game_start_time |-> 0]
             /\ round = [open |-> TRUE, target |-> t, count |-> LongRound,
                         base |-> 0]

GuessInRound(p, guess, drawn) ==
    /\ session_get(session, "attempts", 0) \in AttemptsExplored
    /\ Len(records) < MaxRounds
    /\ number_guess(p, guess, drawn)
    /\ round' = round_after(round, guess, drawn, Len(records))

NextGuess ==
    \E p \in Players, guess \in Guesses, drawn \in Targets :
        GuessInRound(p, guess, drawn)

SpecGuess == InitGuess /\ [][NextGuess]_vars

-----------------------------------------------------------------------------
(* SpecRps: the rock_paper_scissors and reset_rps_stats request handlers    *)

\* choices = ['rock', 'paper', 'scissors']
choices == {"rock", "paper", "scissors"}

\* request.POST.get('choice') when the form has no 'choice' field
MissingChoice == "None"

\* What a client can post as 'choice': the three tokens, an unknown token
\* and no token at all.
PostedChoices == choices \cup {"lizard", MissingChoice}

\* The session counter stops the exploration after this many counted games.
MaxRpsGames == 8

\* The dominance rule read from the computer's side.
determine_rps_winner_swapped(player, computer) ==
    IF player = computer THEN "tie"
    ELSE IF \/ (computer = "rock" /\ player = "scissors")
            \/ (computer = "paper" /\ player = "rock")
            \/ (computer = "scissors" /\ player = "paper")
         THEN "win"
         ELSE "lose"

determine_rps_winner(player, computer) ==
    IF player = computer THEN "tie"
    ELSE IF \/ (player = "rock" /\ computer = "scissors")
            \/ (player = "paper" /\ computer = "rock")
            \/ (player = "scissors" /\ computer = "paper")
         THEN "win"
         ELSE "lose"

InitRps ==
    /\ InitTables
    /\ last = NoCall
    /\ proc = << >>
    /\ session = NoSession
    /\ board = EmptyBoard
    /\ ret = NoCall
    /\ round = NoRound

\* POST rock_paper_scissors with choice = player_choice; computer_choice is
\* what random.choice returns.  On 'win' GameScore.objects.create is called
\* with player_name= and game_type=, which GameScore does not have: the call
\* raises TypeError before the session is written, and nothing is stored.
RockPaperScissors(player_choice, computer_choice) ==
    LET result == determine_rps_winner(player_choice, computer_choice)
        games_played == session_get(session, "rps_games_played", 0) + 1
        wins == session_get(session, "rps_wins", 0)
        raised == result = "win"
    IN
    /\ session_get(session, "rps_games_played", 0) < MaxRpsGames
    /\ session' = IF raised
                  THEN session
                  ELSE session_set(session_set(session, "rps_games_played",
                                               games_played),
                                   "rps_wins", wins)
    /\ last' = [op |-> "rock_paper_scissors", choice |-> player_choice,
                computer |-> computer_choice, result |-> result,
                raised |-> raised]
    /\ UNCHANGED <<records, playerRow, gameRow, proc, board, ret, round>>

ResetRpsStats ==
    /\ session' = session_set(session_set(session, "rps_games_played", 0),
                              "rps_wins", 0)
    /\ last' = [op |-> "reset_rps_stats"]
    /\ UNCHANGED <<records, playerRow, gameRow, proc, board, ret, round>>

NextRps ==
    \/ \E player_choice \in PostedChoices, computer_choice \in choices :
           RockPaperScissors(player_choice, computer_choice)
    \/ ResetRpsStats

SpecRps == InitRps /\ [][NextRps]_vars

-----------------------------------------------------------------------------
(* Properties of the ledger, stated on the tables alone                    *)

\* The rows of the GameScore table of one (player, game) pair.
PairRows(p, g) == {k \in DOMAIN records : records[k].player = p /\ records[k].game = g}

PlayerRows(p) == {k \in DOMAIN records : records[k].player = p}

GameRows(g) == {k \in DOMAIN records : records[k].game = g}

FlaggedRows(p, g) == {k \in PairRows(p, g) : records[k].is_personal_best}

RECURSIVE ScoreTotal(_)
ScoreTotal(ks) ==
    IF ks = {} THEN 0
    ELSE LET k == CHOOSE k \in ks : TRUE IN records[k].score + ScoreTotal(ks \ {k})

IsTopScore(k, ks) == \A j \in ks : records[j].score <= records[k].score

\* C1: after any sequence of sequential recordScore calls, every (player,
\* game) pair that has a record has exactly one record flagged personal best,
\* and that record's score is the maximum score of the pair's records.
C1_OneBestWithMaxScore ==
    \A p \in Players, g \in Games :
        PairRows(p, g) # {} =>
            /\ Cardinality(FlaggedRows(p, g)) = 1
            /\ \A k \in FlaggedRows(p, g) : IsTopScore(k, PairRows(p, g))

\* A pair with three records whose best was demoted by a later, higher one,
\* itself followed by a lower one that left the flag alone.
C1_Witness ==
    \E p \in Players, g \in Games :
        /\ Cardinality(PairRows(p, g)) = 3
        /\ \E i, j, k \in PairRows(p, g) :
              /\ i < j /\ j < k
              /\ records[i].score < records[j].score
              /\ records[k].score < records[j].score
              /\ FlaggedRows(p, g) = {j}

\* C4: right after a sequential recordScore for player p returns, p's
\* total_games is the number of p's records over every game, total_score is
\* the sum of their scores and highest_score their maximum; after 80 then 95
\* for one pair, highest_score = 95 and total_games = 2.
C4_PlayerAggregateAfterSave ==
    last.op = "recordScore" =>
        LET p == last.player IN
        /\ playerRow[p].total_games = Cardinality(PlayerRows(p))
        /\ playerRow[p].total_score = ScoreTotal(PlayerRows(p))
        /\ \E k \in PlayerRows(p) :
               /\ playerRow[p].highest_score = records[k].score
               /\ IsTopScore(k, PlayerRows(p))
        /\ (/\ Cardinality(PlayerRows(p)) = 2
            /\ \E i, j \in PlayerRows(p) :
                  /\ i < j
                  /\ records[i].game = records[j].game
                  /\ records[i].score = 80
                  /\ records[j].score = 95)
           => (playerRow[p].highest_score = 95 /\ playerRow[p].total_games = 2)

\* The scenario: scores 80 then 95 for one pair, and nothing else of the player.
C4_Witness ==
    /\ last.op = "recordScore"
    /\ Cardinality(PlayerRows(last.player)) = 2
    /\ \E i, j \in PlayerRows(last.player) :
          /\ i < j
          /\ records[i].game = records[j].game
          /\ records[i].score = 80
          /\ records[j].score = 95
          /\ ~records[i].is_personal_best
          /\ records[j].is_personal_best
    /\ playerRow[last.player].total_games = 2
    /\ playerRow[last.player].total_score = 175
    /\ playerRow[last.player].highest_score = 95

\* C5: right after a sequential recordScore for game g returns, g's
\* play_count is the number of records of g from all players and
\* average_score is the sum of their scores divided by that number.
C5_GameAggregateAfterSave ==
    last.op = "recordScore" =>
        LET g == last.game IN
        /\ gameRow[g].play_count = Cardinality(GameRows(g))
        /\ gameRow[g].average_score.den > 0
        /\ gameRow[g].average_score.num * Cardinality(GameRows(g))
               = ScoreTotal(GameRows(g)) * gameRow[g].average_score.den

\* A game with records of two players whose average is no whole number.
C5_Witness ==
    /\ last.op = "recordScore"
    /\ \E i, j \in GameRows(last.game) :
          /\ records[i].player # records[j].player
          /\ records[i].score = 80
          /\ records[j].score = 95
    /\ Cardinality(GameRows(last.game)) = 2
    /\ gameRow[last.game].play_count = 2

\* C7 as stated: the flagged record of a pair is the earliest-created of the
\* pair's maximum-score records (an equal score arriving later leaves the
\* flag where it was).
C7_EarliestOfTiesFlagged ==
    \A p \in Players, g \in Games :
        \A k \in FlaggedRows(p, g) :
            /\ IsTopScore(k, PairRows(p, g))
            /\ \A j \in PairRows(p, g) :
                   records[j].score = records[k].score => k <= j

\* C7 as the code has it: the flagged record of a pair is the latest-created
\* of the pair's maximum-score records; a record whose score equals the best
\* so far takes the flag and the earlier record loses it.
C7_LatestOfTiesFlagged ==
    \A p \in Players, g \in Games :
        /\ PairRows(p, g) # {} => FlaggedRows(p, g) # {}
        /\ \A k \in FlaggedRows(p, g) :
              /\ IsTopScore(k, PairRows(p, g))
              /\ \A j \in PairRows(p, g) :
                     records[j].score = records[k].score => j <= k

\* Two records of one pair with the same, maximal score.
C7_Witness ==
    \E p \in Players, g \in Games :
        \E i, j \in PairRows(p, g) :
            /\ i < j
            /\ records[i].score = records[j].score
            /\ IsTopScore(j, PairRows(p, g))
            /\ last.op = "recordScore"
            /\ j = Len(records)

\* C19: the ledger is append-only. A recordScore call for pair (p, g) removes
\* no record and changes no record's player, game, score or attempts; the
\* only change to existing records is is_personal_best going from true to
\* false on records of the pair (p, g): no flag goes from false to true and
\* the flags of the other pairs stay as they are.
C19_AppendOnly ==
    [][/\ Len(records') = Len(records) + 1
       /\ \A k \in DOMAIN records :
             /\ records'[k].player = records[k].player
             /\ records'[k].game = records[k].game
             /\ records'[k].score = records[k].score
             /\ records'[k].attempts = records[k].attempts
             /\ records'[k].is_personal_best # records[k].is_personal_best
                    => /\ records[k].is_personal_best
                       /\ ~records'[k].is_personal_best
                       /\ records[k].player = records'[Len(records')].player
                       /\ records[k].game = records'[Len(records')].game]_vars

\* A record demoted by a later one of its pair while the flagged record of
\* another player in the same game, created in between, kept its flag.
C19_Witness ==
    /\ Len(records) = 3
    /\ records[1].player = records[3].player
    /\ records[1].game = records[3].game
    /\ records[2].player # records[1].player
    /\ records[2].game = records[1].game
    /\ records[1].score < records[3].score
    /\ ~records[1].is_personal_best
    /\ records[2].is_personal_best
    /\ records[3].is_personal_best

-----------------------------------------------------------------------------
(* Properties of the evaluator and the heuristic, stated on the geometry    *)

\* The eight lines of the grid in the order rows, columns, diagonals.
Line(k) ==
    IF k <= 3 THEN {3 * (k - 1) + i : i \in 0..2}
    ELSE IF k <= 6 THEN {(k - 4) + 3 * i : i \in 0..2}
    ELSE IF k = 7 THEN {0, 4, 8}
    ELSE {2, 4, 6}

LineHeldBy(b, k, m) == \A i \in Line(k) : b[i] = m

LineComplete(b, k) == \E m \in Markers : LineHeldBy(b, k, m)

HasEmpty(b) == \E i \in Cells : b[i] = ""

\* The marker on the first complete line, in the order of Line.
FirstLineMarker(b) ==
    IF \E k \in 1..8 : LineComplete(b, k)
    THEN LET k == CHOOSE k \in 1..8 :
                    LineComplete(b, k) /\ \A j \in 1..(k - 1) : ~LineComplete(b, j)
         IN CHOOSE m \in Markers : LineHeldBy(b, k, m)
    ELSE NoWinner

\* C8 as stated: for every board, whenever a line is fully held by a marker
\* the evaluation is that marker; a full board with no complete line is a
\* Draw; a board with an empty cell and no complete line evaluates to None.
C8_EveryCompleteLineWins ==
    ret.op = "evaluateBoard" =>
        /\ \A k \in 1..8, m \in Markers : LineHeldBy(board, k, m) => ret.winner = m
        /\ (~HasEmpty(board) /\ \A k \in 1..8 : ~LineComplete(board, k))
               => ret.winner = "Draw"
        /\ (HasEmpty(board) /\ \A k \in 1..8 : ~LineComplete(board, k))
               => ret.winner = NoWinner

\* C8 as the code has it: the evaluation is the marker of the first complete
\* line in the order rows, columns, diagonals (so it is the marker of every
\* complete line when only one marker has one); Draw and None as stated.
C8_FirstCompleteLineWins ==
    ret.op = "evaluateBoard" =>
        /\ (\E k \in 1..8 : LineComplete(board, k))
               => ret.winner = FirstLineMarker(board)
        /\ \A m \in Markers :
               (/\ \E k \in 1..8 : LineHeldBy(board, k, m)
                /\ \A k \in 1..8, n \in Markers \ {m} : ~LineHeldBy(board, k, n))
               => ret.winner = m
        /\ (~HasEmpty(board) /\ \A k \in 1..8 : ~LineComplete(board, k))
               => ret.winner = "Draw"
        /\ (HasEmpty(board) /\ \A k \in 1..8 : ~LineComplete(board, k))
               => ret.winner = NoWinner

\* A board whose only complete line is a diagonal, evaluated.
C8_Witness ==
    /\ ret.op = "evaluateBoard"
    /\ LineHeldBy(board, 8, "O")
    /\ \A k \in 1..7 : ~LineComplete(board, k)
    /\ ret.winner = "O"

\* C9: for every board and every random draw, get_computer_move returns the
\* index of a cell that is empty in the board it was given, and returns None
\* exactly when the board has no empty cell.
C9_MoveIsEmptyCell ==
    ret.op = "get_computer_move" =>
        /\ ret.move # NoMove => (ret.move \in Cells /\ board[ret.move] = "")
        /\ ret.move = NoMove <=> ~HasEmpty(board)

\* The last resort: centre and corners taken, nothing to win or block, and an
\* edge cell other than the first free one is drawn.
C9_Witness ==
    /\ ret.op = "get_computer_move"
    /\ board[4] # ""
    /\ \A i \in {0, 2, 6, 8} : board[i] # ""
    /\ \A i \in Cells : board[i] = "" =>
           /\ FirstLineMarker([board EXCEPT ![i] = "O"]) = NoWinner
           /\ FirstLineMarker([board EXCEPT ![i] = "X"]) = NoWinner
    /\ ret.move \in {3, 5, 7}
    /\ \E i \in Cells : i < ret.move /\ board[i] = ""

\* A cell where placing O makes the evaluator report O.
WinsForO(b, i) == b[i] = "" /\ FirstLineMarker([b EXCEPT ![i] = "O"]) = "O"

WinsForX(b, i) == b[i] = "" /\ FirstLineMarker([b EXCEPT ![i] = "X"]) = "X"

\* C10: for every board with an empty cell where placing O makes check_winner
\* return O, get_computer_move returns such a cell.
C10_TakesWinningMove ==
    (ret.op = "get_computer_move" /\ \E i \in Cells : WinsForO(board, i))
        => (ret.move \in Cells /\ WinsForO(board, ret.move))

\* O can win, X threatens at a lower index, the centre is free, and the
\* winning cell (not the centre) is returned.
C10_Witness ==
    /\ ret.op = "get_computer_move"
    /\ ret.move \in Cells \ {4}
    /\ WinsForO(board, ret.move)
    /\ board[4] = ""
    /\ \E i \in Cells : i < ret.move /\ WinsForX(board, i) /\ ~WinsForO(board, i)

\* C11: for every board in which no empty cell gives O an immediate win but
\* some empty cell would give X an immediate win, get_computer_move returns
\* one of the cells where placing X makes check_winner return X.
C11_BlocksWinningMove ==
    (/\ ret.op = "get_computer_move"
     /\ \A i \in Cells : ~WinsForO(board, i)
     /\ \E i \in Cells : WinsForX(board, i))
        => (ret.move \in Cells /\ WinsForX(board, ret.move))

\* Nothing to win, the centre free, and a threat away from the centre blocked.
C11_Witness ==
    /\ ret.op = "get_computer_move"
    /\ \A i \in Cells : ~WinsForO(board, i)
    /\ board[4] = ""
    /\ ~WinsForX(board, 4)
    /\ ret.move \in Cells \ {4}
    /\ WinsForX(board, ret.move)
    /\ \E i \in Cells : i < ret.move /\ board[i] = ""

NothingToWinOrBlock(b) == \A i \in Cells : ~WinsForO(b, i) /\ ~WinsForX(b, i)

CornerCells == {0, 2, 6, 8}

EdgeCells == {1, 3, 5, 7}

\* C12: when neither an immediate O win nor an immediate X win is available,
\* get_computer_move returns 4 if cell 4 is empty; otherwise an empty corner
\* if there is one; and an edge cell only when the centre and all four
\* corners are occupied.
C12_CenterCornerAny ==
    (ret.op = "get_computer_move" /\ NothingToWinOrBlock(board)) =>
        /\ board[4] = "" => ret.move = 4
        /\ (board[4] # "" /\ \E c \in CornerCells : board[c] = "")
               => (ret.move \in CornerCells /\ board[ret.move] = "")
        /\ ret.move \in EdgeCells
               => (board[4] # "" /\ \A c \in CornerCells : board[c] # "")

\* The centre taken, a free edge before a free corner, and a corner other
\* than the first free one drawn.
C12_Witness ==
    /\ ret.op = "get_computer_move"
    /\ NothingToWinOrBlock(board)
    /\ board[4] # ""
    /\ board[1] = ""
    /\ ret.move \in CornerCells
    /\ \E c \in CornerCells : c < ret.move /\ board[c] = ""

\* C22: get_computer_move has no net effect on the board it is given.  For
\* every board over {empty, X, O} and on every return path (win found, block
\* found, centre, corner, any cell, None) the list after the call equals the
\* list before it cell for cell, the trial fills of the win and block loops
\* included.
C22_BoardRestored ==
    ret.op = "get_computer_move" =>
        \A i \in Cells : ret.board[i] = board[i]

\* The win trial filled and emptied an earlier cell, then found the winning
\* one, and the list came back as it went in.
C22_Witness ==
    /\ ret.op = "get_computer_move"
    /\ ret.move \in Cells
    /\ WinsForO(board, ret.move)
    /\ \E j \in Cells : j < ret.move /\ board[j] = "" /\ ~WinsForO(board, j)
    /\ ret.board[ret.move] = ""
    /\ ret.board = board

-----------------------------------------------------------------------------
(* Properties of tic-tac-toe rounds                                         *)

CountOf(b, m) == Cardinality({i \in Cells : b[i] = m})

RoundOver(b) == FirstLineMarker(b) # NoWinner \/ ~HasEmpty(b)

\* C20: turn alternation holds for the board of a round.  Starting from the
\* empty board and posting back each board returned, with any position 0..8
\* (an occupied one included), every returned board has count(X) - count(O)
\* in {0, 1}, and every returned board that does not end the round has
\* count(X) = count(O).
C20_TurnAlternation ==
    /\ CountOf(board, "X") - CountOf(board, "O") \in {0, 1}
    /\ ~RoundOver(board) => CountOf(board, "X") = CountOf(board, "O")
    /\ (last.op = "tic_tac_toe_move" /\ last.in_round) => last.board = board

\* A round three requests old that is still open, and a request on an
\* occupied cell that returned the board as it was.
C20_Witness ==
    /\ last.op = "tic_tac_toe_move"
    /\ last.in_round
    /\ last.posted[last.position] # ""
    /\ last.board = board
    /\ CountOf(board, "X") = 3
    /\ CountOf(board, "O") = 3
    /\ ~RoundOver(board)

WellFormed(b) == \A i \in Cells : b[i] \in {"", "X", "O"}

HasTriple(b, m) == \E k \in 1..8 : LineHeldBy(b, k, m)

\* 100 when X has completed a triple, 0 when O has, 50 when the board is full
\* with no triple.
TerminalScore(b) ==
    IF HasTriple(b, "X") THEN 100 ELSE IF HasTriple(b, "O") THEN 0 ELSE 50

\* What C21 says of one request: posted is the board of the request, returned
\* the board of the response.
RecordIffTerminal(posted, position, returned) ==
    /\ IF RoundOver(returned)
       THEN /\ Len(records') = Len(records) + 1
            /\ \A k \in DOMAIN records :
                  /\ records'[k].player = records[k].player
                  /\ records'[k].game = records[k].game
                  /\ records'[k].score = records[k].score
            /\ records'[Len(records')].game = "tic_tac_toe"
            /\ records'[Len(records')].score = TerminalScore(returned)
       ELSE records' = records
    /\ (posted[position] = "" /\ RoundOver([posted EXCEPT ![position] = "X"]))
           => returned = [posted EXCEPT ![position] = "X"]

\* C21 as stated: every request on a board over {empty, X, O} writes exactly
\* one record if the board it returns is terminal and none otherwise, with
\* score 100 / 0 / 50 for an X triple / an O triple / a full board, and the
\* computer places no marker when the player's own move ends the round.
C21_RecordIffTerminal ==
    [][(last'.op = "tic_tac_toe_move" /\ WellFormed(last'.posted)) =>
           RecordIffTerminal(last'.posted, last'.position, last'.board)]_vars

\* C21 for the requests of a round that is still open: when the posted board
\* is not terminal already, the request writes exactly one record if the
\* board it returns is terminal and none otherwise, with score 100 / 0 / 50
\* for an X triple / an O triple / a full board, and the computer places no
\* marker when the player's own move ends the round.
C21_RecordIffRoundEnds ==
    [][(/\ last'.op = "tic_tac_toe_move"
        /\ WellFormed(last'.posted)
        /\ ~RoundOver(last'.posted)) =>
           RecordIffTerminal(last'.posted, last'.position, last'.board)]_vars

\* The board X, X, -, ... with position 2: winner X, one record of 100, no
\* marker of the computer.
C21_Witness ==
    /\ last.op = "tic_tac_toe_move"
    /\ last.posted = [i \in Cells |-> IF i \in {0, 1} THEN "X" ELSE ""]
    /\ last.position = 2
    /\ last.winner = "X"
    /\ last.board = [i \in Cells |-> IF i \in {0, 1, 2} THEN "X" ELSE ""]
    /\ Len(records) = 1
    /\ records[1].score = 100
    /\ records[1].game = "tic_tac_toe"

\* C18: a board with a cell value outside {empty, X, O} is rejected: no
\* marker is placed, no record is written and the evaluator reports no
\* winner other than X or O.
C18_MalformedBoardRejected ==
    [][(/\ last'.op = "tic_tac_toe_move"
        /\ \E i \in Cells : last'.posted[i] \notin {"", "X", "O"}) =>
          /\ last'.board = last'.posted
          /\ records' = records
          /\ last'.checked \in {NoWinner, "X", "O"}]_vars

-----------------------------------------------------------------------------
(* Properties of number-guess rounds                                        *)

RoundKeys == {"target_number", "attempts", "game_start_time"}

FloorScore(k) == IF 100 - k >= 10 THEN 100 - k ELSE 10

\* C14: in a round whose k-th guess is the first one equal to the target,
\* every earlier guess g gets the hint TooLow when g < target and TooHigh when
\* g > target and writes no record, and the k-th guess writes exactly one
\* record, with attempts = k and score = max(100 - k, 10).
C14_HintsThenOneRecord ==
    last.op = "number_guess" =>
        /\ round.open =>
              /\ Len(records) = round.base
              /\ last.guess < round.target => last.result = "TooLow"
              /\ last.guess > round.target => last.result = "TooHigh"
              /\ last.result \in {"TooLow", "TooHigh"}
        /\ ~round.open =>
              /\ Len(records) = round.base + 1
              /\ records[Len(records)].game = "number_guess"
              /\ records[Len(records)].attempts = round.count
              /\ records[Len(records)].score = FloorScore(round.count)

\* Target 50 found with the third guess: attempts 3 and score 97.
C14_Witness ==
    /\ last.op = "number_guess"
    /\ ~round.open
    /\ round.target = 50
    /\ round.count = 3
    /\ last.guess = 50
    /\ Len(records) = round.base + 1
    /\ records[Len(records)].attempts = 3
    /\ records[Len(records)].score = 97

\* C15: the session follows NoRound -> InProgress -> Completed -> NoRound.
\* While a round is open the session holds its target, in 1..100 and the same
\* from the first guess to the last, and attempts is the number of guesses
\* made in the round (1 after the first, one more after every non-matching
\* guess); when no round is open (none started yet, or the last guess
\* matched) the session holds no target, attempts or start time, so that the
\* next guess starts a round with a new target and attempts = 1.
C15_SessionFollowsRound ==
    /\ round.open =>
          /\ RoundKeys \subseteq DOMAIN session
          /\ session["target_number"] = round.target
          /\ session["target_number"] \in 1..100
          /\ session["attempts"] = round.count
          /\ round.count >= 1
    /\ ~round.open => DOMAIN session \cap RoundKeys = {}

\* The first guess of the round that follows a completed one.
C15_Witness ==
    /\ round.open
    /\ round.count = 1
    /\ round.base = 1
    /\ Len(records) = 1
    /\ session["attempts"] = 1
    /\ session["target_number"] = round.target
    /\ last.op = "number_guess"
    /\ last.attempts = 1
    /\ ~last.completed

\* C16: a guess outside 1..100 is rejected before evaluation: it gets no
\* Correct/TooLow/TooHigh answer, the session is left as it was (no round
\* started, no attempt counted) and no record is written.
C16_OutOfRangeGuessRejected ==
    [][(last'.op = "number_guess" /\ last'.guess \notin 1..100) =>
          /\ last'.result \notin {"Correct", "TooLow", "TooHigh"}
          /\ session' = session
          /\ records' = records]_vars

-----------------------------------------------------------------------------
(* Properties of rock-paper-scissors                                        *)

RpsTokens == {"rock", "paper", "scissors"}

\* rock > scissors, scissors > paper, paper > rock
Beats == {<<"rock", "scissors">>, <<"scissors", "paper">>, <<"paper", "rock">>}

\* C13: for every pair (player, computer) over {rock, paper, scissors},
\* determine_rps_winner returns tie when the choices are equal, win when the
\* player's choice beats the computer's, and lose otherwise.
C13_CyclicDominance ==
    (last.op = "rock_paper_scissors" /\ last.choice \in RpsTokens) =>
        last.result = IF last.choice = last.computer THEN "tie"
                      ELSE IF <<last.choice, last.computer>> \in Beats THEN "win"
                      ELSE "lose"

\* player = rock, computer = scissors gives win.
C13_Witness ==
    /\ last.op = "rock_paper_scissors"
    /\ last.choice = "rock"
    /\ last.computer = "scissors"
    /\ last.result = "win"

\* C17: a request whose choice is not rock, paper or scissors (a missing
\* choice included) is rejected: it produces no win/lose/tie outcome and
\* leaves rps_games_played and rps_wins as they were.
C17_InvalidChoiceRejected ==
    [][(last'.op = "rock_paper_scissors" /\ last'.choice \notin RpsTokens) =>
          /\ last'.result \notin {"win", "lose", "tie"}
          /\ session' = session]_vars

-----------------------------------------------------------------------------
(* Properties of concurrent recordScore calls                               *)

AllDone == proc # << >> /\ \A w \in Workers : proc[w].pc = "done"

\* C2: check, demotion and insert of recordScore are atomic with respect to
\* concurrent writers on one (player, game) pair: once two calls on the same
\* pair have both completed, at most one record of the pair is flagged
\* personal best and it has the pair's maximum score.
C2_AtomicPersonalBest ==
    (AllDone /\ proc[1].p = proc[2].p /\ proc[1].g = proc[2].g) =>
        /\ Cardinality(FlaggedRows(proc[1].p, proc[1].g)) <= 1
        /\ \A k \in FlaggedRows(proc[1].p, proc[1].g) :
               IsTopScore(k, PairRows(proc[1].p, proc[1].g))

\* C6: recordScore calls of different players on one game are independent:
\* once both have completed, the game's play_count is the number of records
\* of the game and each player's total_games is that player's record count.
C6_NoLostUpdateAcrossPlayers ==
    (AllDone /\ proc[1].p # proc[2].p /\ proc[1].g = proc[2].g) =>
        /\ gameRow[proc[1].g].play_count = Cardinality(GameRows(proc[1].g))
        /\ \A w \in Workers :
               playerRow[proc[w].p].total_games = Cardinality(PlayerRows(proc[w].p))

-----------------------------------------------------------------------------
(* Properties of the request handlers                                       *)

\* C3: the player aggregate is only ever derived from the records: after a
\* round-completing request handler returns (number_guess on a correct
\* guess; tic_tac_toe_move on a player win, a draw or a computer win), the
\* player's total_games is the number of that player's records and
\* total_score is the sum of their scores.
C3_AggregateDerivedAfterHandler ==
    (last.op \in {"number_guess", "tic_tac_toe_move"} /\ last.completed) =>
        /\ playerRow[last.player].total_games = Cardinality(PlayerRows(last.player))
        /\ playerRow[last.player].total_score = ScoreTotal(PlayerRows(last.player))

=============================================================================
